---- MODULE Spec2Model ----
(***************************************************************************)
(* Model of dqn_agent.py: the ReplayBuffer (bounded deque with uniform     *)
(* sampling without replacement) and the Agent's act / step / learn /      *)
(* soft_update cycle.                                                      *)
(*                                                                         *)
(* Numbers.  Parameters of the online network are integers.  Parameters of *)
(* the target network are exact rationals: qnetwork_target[i] / tscale,    *)
(* where tscale is a power of TAU.den.  gamma and tau are exact rationals  *)
(* [num, den].  Floating-point rounding is not modelled.                   *)
(***************************************************************************)
EXTENDS Integers, Sequences, FiniteSets, TLC

VARIABLES
  memory,            \* ReplayBuffer.memory: the deque, oldest first
  maxlen,            \* ReplayBuffer.memory.maxlen
  batch_size,        \* ReplayBuffer.batch_size
  t_step,            \* Agent.t_step
  double_dqn,        \* Agent.double_dqn
  qnetwork_local,    \* parameters of Agent.qnetwork_local (ordered list)
  qnetwork_target,   \* numerators of the parameters of Agent.qnetwork_target
  tscale,            \* common denominator of the target parameters
  training,          \* qnetwork_local.training (train() / eval() mode)
  ret,               \* what the last call did and returned or raised
  nstep,             \* history: number of Agent.step calls so far
  added,             \* history: the experiences of the direct ReplayBuffer.add calls
  target0,           \* history: the target parameters at construction
  nsoft,             \* history: number of soft updates so far
  rng,               \* state of the process-wide generator of module random
  twin,              \* a second run of the program: its agent and generator
  inserted           \* history: the call the second run made on top of the first's

vars == <<memory, maxlen, batch_size, t_step, double_dqn, qnetwork_local,
          qnetwork_target, tscale, training, ret, nstep, added, target0, nsoft,
          rng, twin, inserted>>

(***************************************************************************)
(* Bounds of the model and constants of the program.                       *)
(***************************************************************************)
BUFFER_SIZE == 3      \* int(1e5) in the source, scaled down
BATCH_SIZE == 2       \* 64 in the source, scaled down
UPDATE_EVERY == 2     \* 4 in the source, scaled down
GAMMA == [num |-> 99, den |-> 100]
TAU == [num |-> 1, den |-> 1000]

\* longest parameter list given to a direct soft_update call
MaxParams == 3

\* draws taken from one generator in one behaviour
MaxDraws == 6

MaxSteps == UPDATE_EVERY + 2   \* Agent.step calls in one behaviour
MaxLearns == 2        \* learn invocations (soft updates) in one behaviour
MaxAdds == 5          \* ReplayBuffer.add calls in a buffer-only behaviour
RandDen == 2          \* random.random() and eps are multiples of 1/RandDen

state_size == 2       \* the states are 0 .. state_size-1
action_size == 2      \* the actions are 0 .. action_size-1

States == 0 .. (state_size - 1)
Actions == 0 .. (action_size - 1)
NParams == state_size * action_size
BadState == state_size       \* a state array of the wrong shape
BadAction == action_size     \* an action index outside the action space

Min(a, b) == IF a < b THEN a ELSE b

RECURSIVE Pow(_, _)
Pow(b, n) == IF n = 0 THEN 1 ELSE b * Pow(b, n - 1)

(***************************************************************************)
(* ReplayBuffer                                                            *)
(***************************************************************************)
\* ReplayBuffer.experience: the namedtuple built by add.
Experience(state, action, reward, next_state, done) ==
  [state |-> state, action |-> action, reward |-> reward,
   next_state |-> next_state, done |-> done]

\* A plausible bug: a full buffer drops the new experience instead of the oldest.
add_keep_oldest(mem, e, cap) ==
  IF Len(mem) >= cap THEN mem ELSE Append(mem, e)

\* A plausible bug: a transition that ends the episode is not stored.
add_skip_terminal(mem, e, cap) ==
  IF e.done THEN mem
  ELSE IF Len(mem) >= cap THEN Append(Tail(mem), e)
  ELSE Append(mem, e)

\* deque(maxlen=cap).append(e): a full deque discards its leftmost item.
add(mem, e, cap) ==
  IF cap = 0 THEN <<>>
  ELSE IF Len(mem) >= cap THEN Append(Tail(mem), e)
  ELSE Append(mem, e)

\* A plausible bug: positions drawn with replacement (random.choices).
random_choices(n, k) == [1..k -> 1..n]

\* random.sample(population of n, k): the possible draws, each a sequence of
\* k pairwise distinct positions.  It raises ValueError when k > n, which the
\* callers below test before drawing.
random_sample(n, k) ==
  {s \in [1..k -> 1..n] : \A i, j \in 1..k : i # j => s[i] # s[j]}

\* A plausible bug: the flag inverted on conversion.
astype_inverted(done) == IF done THEN 0 ELSE 1

\* np.vstack([e.done ...]).astype(np.uint8): True -> 1, False -> 0.
astype_uint8(done) == IF done THEN 1 ELSE 0

\* The five parallel arrays built from the drawn experiences.
collate(experiences) ==
  LET k == Len(experiences) IN
  [states      |-> [i \in 1..k |-> experiences[i].state],
   actions     |-> [i \in 1..k |-> experiences[i].action],
   rewards     |-> [i \in 1..k |-> experiences[i].reward],
   next_states |-> [i \in 1..k |-> experiences[i].next_state],
   dones       |-> [i \in 1..k |-> astype_uint8(experiences[i].done)]]

NoBatch ==
  [states |-> <<>>, actions |-> <<>>, rewards |-> <<>>,
   next_states |-> <<>>, dones |-> <<>>]

\* The record of a call: which operation, the error it raised ("none" when it
\* returned), and what it computed.
Ret0 ==
  [op |-> "init", err |-> "none", learned |-> FALSE, action |-> 0 - 1,
   state |-> 0 - 1, eps |-> 0 - 1,
   idx |-> <<>>, batch |-> NoBatch, args |-> <<>>,
   fwd_training |-> TRUE, next_max |-> <<>>, targets |-> <<>>,
   gamma |-> GAMMA]

(***************************************************************************)
(* Value estimators (QNetwork, model.py) and the optimizer (torch.optim)   *)
(* are outside the source file: a tabular estimator with one parameter per *)
(* (state, action) pair stands for the network.                            *)
(***************************************************************************)
Idx(s, a) == s * action_size + a + 1

\* QNetwork.forward on one state: the action values, by action index.
forward(params, s) == [a \in Actions |-> params[Idx(s, a)]]

MaxOf(v) == CHOOSE m \in {v[a] : a \in Actions} : \A a \in Actions : v[a] <= m

\* np.argmax / torch.max(.., 1) indices: the first index of a maximal value.
argmax(v) ==
  CHOOSE a \in Actions :
    /\ v[a] = MaxOf(v)
    /\ \A b \in Actions : b < a => v[b] < v[a]

\* optimizer.step() after loss.backward(): Adam moves the online parameters
\* only.  The outcomes considered: no change, or the parameter behind one
\* (state, action) pair of the batch switched between 0 and 1.
optimizer_step(params, experiences) ==
  {params} \cup
  {[params EXCEPT ![Idx(experiences.states[i], experiences.actions[i])] = 1 - @]
   : i \in 1..Len(experiences.states)}

ParamVecA == [i \in 1..NParams |-> i % 2]
ParamVecB == [i \in 1..NParams |-> IF i <= action_size THEN (i + 1) % 2 ELSE i % 2]
InitParams == {ParamVecA, ParamVecB}

(***************************************************************************)
(* Agent                                                                   *)
(***************************************************************************)
\* A plausible bug: learning as soon as the buffer holds BATCH_SIZE items.
learn_due_at_batch(t, size) == t = 0 /\ size >= BATCH_SIZE

\* A plausible bug: the guard on the buffer size left out.
learn_due_unguarded(t, size) == t = 0

\* Agent.step: "if self.t_step == 0: if len(self.memory) > BATCH_SIZE".
learn_due(t, size) == t = 0 /\ size > BATCH_SIZE

\* Agent.act, the epsilon-greedy selection.  u / RandDen is the value of
\* random.random(), eps / RandDen is eps, choice is what random.choice draws.
act_select(action_values, eps, u, choice) ==
  IF u > eps THEN argmax(action_values) ELSE choice

\* A plausible bug: plain DQN bootstrap used also when double_dqn is set.
next_max_plain(local_params, target_params, s, ddqn) ==
  MaxOf(forward(target_params, s))

\* Agent.learn, the bootstrap value of one sample (numerator over tscale).
next_max_values(local_params, target_params, s, ddqn) ==
  IF ddqn
    THEN forward(target_params, s)[argmax(forward(local_params, s))]
    ELSE MaxOf(forward(target_params, s))

\* A plausible bug: the (1 - dones) factor left out.
td_target_no_mask(reward, gamma, next_max, done, scale) ==
  [num |-> reward * gamma.den * scale + gamma.num * next_max,
   den |-> gamma.den * scale]

\* Agent.learn: targets = rewards + gamma * next_max_values * (1 - dones),
\* for one sample, as the exact rational num / den.
td_target(reward, gamma, next_max, done, scale) ==
  [num |-> reward * gamma.den * scale + gamma.num * next_max * (1 - done),
   den |-> gamma.den * scale]

\* A plausible bug: tau and 1 - tau exchanged.
soft_update_swapped(local_params, target_params, scale, tau) ==
  [params |-> [i \in 1..Len(target_params) |->
                 IF i <= Len(local_params)
                   THEN (tau.den - tau.num) * local_params[i] * scale
                          + tau.num * target_params[i]
                   ELSE target_params[i] * tau.den],
   scale |-> scale * tau.den]

\* Agent.soft_update: for each pair of zip(target parameters, local
\* parameters), target <- tau*local + (1 - tau)*target.  zip stops at the
\* shorter list; a target parameter without a partner keeps its value.
soft_update(local_params, target_params, scale, tau) ==
  [params |-> [i \in 1..Len(target_params) |->
                 IF i <= Len(local_params)
                   THEN tau.num * local_params[i] * scale
                          + (tau.den - tau.num) * target_params[i]
                   ELSE target_params[i] * tau.den],
   scale |-> scale * tau.den]

\* Agent.learn: next_max_values of the batch, one per sample.
NextMaxOf(experiences, local_params, target_params, ddqn) ==
  [i \in 1..Len(experiences.next_states) |->
     next_max_values(local_params, target_params,
                     experiences.next_states[i], ddqn)]

\* Agent.learn: targets of the batch, one per sample.
TargetsOf(experiences, gamma, local_params, target_params, scale, ddqn) ==
  [i \in 1..Len(experiences.rewards) |->
     td_target(experiences.rewards[i], gamma,
               NextMaxOf(experiences, local_params, target_params, ddqn)[i],
               experiences.dones[i], scale)]

\* A plausible bug: the optimizer built over the target network's parameters,
\* so that the gradient step lands on the target.
learn_optimizer_on_target(experiences, gamma, local_params, target_params, scale, ddqn) ==
  LET targets == TargetsOf(experiences, gamma, local_params, target_params, scale, ddqn)
      next_max == NextMaxOf(experiences, local_params, target_params, ddqn)
  IN
  IF \E i \in 1..Len(experiences.actions) : experiences.actions[i] \notin Actions
    THEN {[err |-> "IndexError", local |-> local_params, target |-> target_params,
           scale |-> scale, targets |-> targets, next_max |-> next_max]}
    ELSE {LET su == soft_update(local_params, t2, scale, TAU) IN
            [err |-> "none", local |-> local_params, target |-> su.params,
             scale |-> su.scale, targets |-> targets, next_max |-> next_max]
          : t2 \in optimizer_step(target_params, experiences)}

\* A plausible bug: the optimizer step taken before the failing gather.
learn_step_before_gather(experiences, gamma, local_params, target_params, scale, ddqn) ==
  LET targets == TargetsOf(experiences, gamma, local_params, target_params, scale, ddqn)
      next_max == NextMaxOf(experiences, local_params, target_params, ddqn)
  IN
  IF \E i \in 1..Len(experiences.actions) : experiences.actions[i] \notin Actions
    THEN {[err |-> "IndexError", local |-> l2, target |-> target_params,
           scale |-> scale, targets |-> targets, next_max |-> next_max]
          : l2 \in optimizer_step(local_params, experiences)}
    ELSE {LET su == soft_update(l2, target_params, scale, TAU) IN
            [err |-> "none", local |-> l2, target |-> su.params,
             scale |-> su.scale, targets |-> targets, next_max |-> next_max]
          : l2 \in optimizer_step(local_params, experiences)}

\* A plausible bug: the soft update taken before the optimizer step, from
\* the online parameters as they were on entry.
learn_soft_update_first(experiences, gamma, local_params, target_params, scale, ddqn) ==
  LET targets == TargetsOf(experiences, gamma, local_params, target_params, scale, ddqn)
      next_max == NextMaxOf(experiences, local_params, target_params, ddqn)
  IN
  IF \E i \in 1..Len(experiences.actions) : experiences.actions[i] \notin Actions
    THEN {[err |-> "IndexError", local |-> local_params, target |-> target_params,
           scale |-> scale, targets |-> targets, next_max |-> next_max]}
    ELSE {LET su == soft_update(local_params, target_params, scale, TAU) IN
            [err |-> "none", local |-> l2, target |-> su.params,
             scale |-> su.scale, targets |-> targets, next_max |-> next_max]
          : l2 \in optimizer_step(local_params, experiences)}

\* Agent.learn: the outcomes of one call.  The targets are built from the
\* target parameters as they are on entry; torch.gather(outputs, 1, actions)
\* raises when an action index is outside the action space, before the
\* optimizer has run; otherwise one optimizer step on the online parameters
\* is followed by one soft update from the updated online parameters.
learn(experiences, gamma, local_params, target_params, scale, ddqn) ==
  LET targets == TargetsOf(experiences, gamma, local_params, target_params, scale, ddqn)
      next_max == NextMaxOf(experiences, local_params, target_params, ddqn)
  IN
  IF \E i \in 1..Len(experiences.actions) : experiences.actions[i] \notin Actions
    THEN {[err |-> "IndexError", local |-> local_params, target |-> target_params,
           scale |-> scale, targets |-> targets, next_max |-> next_max]}
    ELSE {LET su == soft_update(l2, target_params, scale, TAU) IN
            [err |-> "none", local |-> l2, target |-> su.params,
             scale |-> su.scale, targets |-> targets, next_max |-> next_max]
          : l2 \in optimizer_step(local_params, experiences)}

(***************************************************************************)
(* Inputs of the calls.                                                    *)
(***************************************************************************)
\* Transitions handed to step: a non-terminal one, a terminal one, and one
\* whose action index is outside the action space.
StepInputs ==
  {Experience(0, 0, 1, 1, FALSE), Experience(1, 1, 2, 0, TRUE),
   Experience(0, BadAction, 1, 0, FALSE)}

\* Experiences handed to add in the buffer-only behaviours.
AddInputs ==
  {Experience(0, 0, 1, 0, FALSE), Experience(0, 1, 1, 1, FALSE),
   Experience(1, 0, 1, 1, TRUE)}

\* Arguments of a direct call of learn: a batch of one sample and gamma.
\* Every combination of next_state and done with a gamma that is not GAMMA,
\* and one batch whose action index is outside the action space.
LearnInputs ==
  {[experiences |-> [states |-> <<0>>, actions |-> <<1>>, rewards |-> <<2>>,
                     next_states |-> <<ns>>, dones |-> <<d>>],
    gamma |-> [num |-> 1, den |-> 2]] : ns \in States, d \in {0, 1}}
  \cup {[experiences |-> [states |-> <<0>>, actions |-> <<BadAction>>,
                          rewards |-> <<2>>, next_states |-> <<0>>,
                          dones |-> <<0>>],
         gamma |-> GAMMA]}

(***************************************************************************)
(* The calls.  Each action is one whole call.                              *)
(***************************************************************************)
AgentFrame == UNCHANGED <<maxlen, batch_size, double_dqn, added, target0>>

\* Behaviours that do not follow the generator (every draw is possible in
\* them) and have no second run.
RngFrame == UNCHANGED <<rng, twin, inserted>>

RngOff == rng = [seed |-> 0, pos |-> 0] /\ twin = <<>> /\ inserted = "none"

\* Agent.step(state, action, reward, next_state, done)
Step(e) ==
  LET mem2 == add(memory, e, maxlen)
      t2 == (t_step + 1) % UPDATE_EVERY
  IN
  /\ nstep < MaxSteps
  /\ memory' = mem2
  /\ t_step' = t2
  /\ nstep' = nstep + 1
  /\ training' = training
  /\ AgentFrame
  /\ IF learn_due(t2, Len(mem2))
       THEN IF batch_size > Len(mem2)
         THEN \* random.sample raises
              /\ ret' = [Ret0 EXCEPT !.op = "step", !.args = <<e>>, !.err = "ValueError"]
              /\ UNCHANGED <<qnetwork_local, qnetwork_target, tscale, nsoft>>
         ELSE /\ nsoft < MaxLearns
              /\ \E idx \in random_sample(Len(mem2), batch_size) :
                   LET experiences == collate([i \in 1..batch_size |-> mem2[idx[i]]]) IN
                   \E o \in learn(experiences, GAMMA, qnetwork_local,
                                  qnetwork_target, tscale, double_dqn) :
                     /\ qnetwork_local' = o.local
                     /\ qnetwork_target' = o.target
                     /\ tscale' = o.scale
                     /\ nsoft' = IF o.err = "none" THEN nsoft + 1 ELSE nsoft
                     /\ ret' = [Ret0 EXCEPT !.op = "step", !.args = <<e>>, !.err = o.err,
                                            !.learned = TRUE, !.idx = idx,
                                            !.batch = experiences,
                                            !.next_max = o.next_max, !.targets = o.targets]
       ELSE /\ ret' = [Ret0 EXCEPT !.op = "step", !.args = <<e>>]
            /\ UNCHANGED <<qnetwork_local, qnetwork_target, tscale, nsoft>>

\* The actions act can return: u / RandDen is what random.random() returns
\* (a value in [0, 1)) and choice what random.choice returns.
act_outcomes(action_values, eps) ==
  {act_select(action_values, eps, u, choice)
   : u \in 0..(RandDen - 1), choice \in Actions}

\* qnetwork_local.train() left out of act: the mode stays what it was
train_mode_missing(mode) == mode

\* qnetwork_local.eval() and qnetwork_local.train(): the training flag of
\* the online estimator after the call, whatever it was before
eval_mode(mode) == FALSE

train_mode(mode) == TRUE

\* Agent.act(state, eps), eps given as eps / RandDen
Act(state, eps) ==
  /\ UNCHANGED <<memory, t_step, qnetwork_local, qnetwork_target, tscale,
                 nstep, nsoft>>
  /\ AgentFrame
  /\ IF state \notin States
       THEN \* the forward pass raises between eval() and train()
            /\ training' = eval_mode(training)
            /\ ret' = [Ret0 EXCEPT !.op = "act", !.err = "RuntimeError",
                                   !.state = state, !.eps = eps,
                                   !.fwd_training = eval_mode(training)]
       ELSE /\ training' = train_mode(eval_mode(training))
            /\ \E action \in act_outcomes(forward(qnetwork_local, state), eps) :
                 ret' = [Ret0 EXCEPT !.op = "act", !.state = state,
                                     !.eps = eps, !.action = action,
                                     !.fwd_training = eval_mode(training)]

\* Agent.learn(experiences, gamma), called directly
Learn(experiences, gamma) ==
  /\ nsoft < MaxLearns
  /\ UNCHANGED <<memory, t_step, training, nstep>>
  /\ AgentFrame
  /\ \E o \in learn(experiences, gamma, qnetwork_local, qnetwork_target,
                    tscale, double_dqn) :
       /\ qnetwork_local' = o.local
       /\ qnetwork_target' = o.target
       /\ tscale' = o.scale
       /\ nsoft' = IF o.err = "none" THEN nsoft + 1 ELSE nsoft
       /\ ret' = [Ret0 EXCEPT !.op = "learn", !.err = o.err, !.learned = TRUE,
                              !.batch = experiences, !.next_max = o.next_max, !.targets = o.targets,
                              !.gamma = gamma]

\* ReplayBuffer.sample()
Sample ==
  /\ UNCHANGED <<memory, t_step, qnetwork_local, qnetwork_target, tscale,
                 training, nstep, nsoft>>
  /\ AgentFrame
  /\ IF batch_size > Len(memory)
       THEN ret' = [Ret0 EXCEPT !.op = "sample", !.err = "ValueError"]
       ELSE \E idx \in random_sample(Len(memory), batch_size) :
              ret' = [Ret0 EXCEPT !.op = "sample", !.idx = idx,
                        !.batch = collate([i \in 1..batch_size |-> memory[idx[i]]])]

\* ReplayBuffer.add(state, action, reward, next_state, done), called directly
Add(e) ==
  /\ Len(added) < MaxAdds
  /\ memory' = add(memory, e, maxlen)
  /\ added' = Append(added, e)
  /\ ret' = [Ret0 EXCEPT !.op = "add"]
  /\ UNCHANGED <<maxlen, batch_size, t_step, double_dqn, qnetwork_local,
                 qnetwork_target, tscale, training, nstep, target0, nsoft>>

\* Agent.soft_update(qnetwork_local, qnetwork_target, TAU), called directly
SoftUpdate ==
  /\ nsoft < MaxLearns
  /\ LET su == soft_update(qnetwork_local, qnetwork_target, tscale, TAU) IN
       /\ qnetwork_target' = su.params
       /\ tscale' = su.scale
  /\ nsoft' = nsoft + 1
  /\ ret' = [Ret0 EXCEPT !.op = "soft_update"]
  /\ UNCHANGED <<memory, maxlen, batch_size, t_step, double_dqn,
                 qnetwork_local, training, nstep, added, target0>>

(***************************************************************************)
(* The generator of module random, followed draw by draw.  Its state is    *)
(* the seed it was last given and the number of words drawn since; Word is *)
(* the next word, a fixed function of that state.                          *)
(***************************************************************************)
Seeds == {0, 1}

Word(g) == ((g.pos + g.seed) * (g.pos + g.seed) + g.pos) % 11

\* A plausible bug: a constructor that leaves the generator as it finds it.
reseed_missing(g, seed) == g

\* random.seed(seed)
reseed(g, seed) == [seed |-> seed, pos |-> 0]

\* Agent.__init__ seeds the generator and ReplayBuffer.__init__, which it
\* calls, seeds it again
agent_init(g, seed) == reseed(reseed(g, seed), seed)

\* one word of the generator reduced to 0..n-1
randbelow(g, n) == [value |-> Word(g) % n, rng |-> [g EXCEPT !.pos = @ + 1]]

\* random.random(), as a numerator over RandDen
random_random(g) == randbelow(g, RandDen)

\* random.choice(np.arange(action_size))
random_choice(g) == randbelow(g, action_size)

\* random.sample(population, k) for a short population: k times, a position
\* j of the pool is drawn, pool[j] taken and the last pool item moved to j
RECURSIVE sample_pool(_, _, _)
sample_pool(g, pool, k) ==
  IF k = 0 THEN [idx |-> <<>>, rng |-> g]
  ELSE LET n == Len(pool)
           j == randbelow(g, n)
           pool2 == [i \in 1..(n - 1) |-> IF i = j.value + 1 THEN pool[n] ELSE pool[i]]
           rest == sample_pool(j.rng, pool2, k - 1)
       IN [idx |-> <<pool[j.value + 1]>> \o rest.idx, rng |-> rest.rng]

random_sample_seeded(g, n, k) == sample_pool(g, [i \in 1..n |-> i], k)

\* optimizer.step() is a function of the parameters and the batch; which of
\* the outcomes of learn it yields is fixed but not modelled
optimizer_pick(outcomes) == CHOOSE o \in outcomes : TRUE

\* The first run, as a record of the fields the calls assign.
Run ==
  [memory |-> memory, t_step |-> t_step, qnetwork_local |-> qnetwork_local,
   qnetwork_target |-> qnetwork_target, tscale |-> tscale,
   training |-> training, ret |-> ret, rng |-> rng]

\* Agent.act(state, eps) on a run: random.random() is drawn on every call
\* that gets past the forward pass, random.choice only when exploring
act_seeded(run, state, eps) ==
  IF state \notin States
    THEN [run EXCEPT !.training = eval_mode(@),
                     !.ret = [Ret0 EXCEPT !.op = "act", !.err = "RuntimeError",
                                          !.state = state, !.eps = eps,
                                          !.fwd_training = eval_mode(run.training)]]
    ELSE LET u == random_random(run.rng)
             c == random_choice(u.rng)
             action == act_select(forward(run.qnetwork_local, state), eps,
                                  u.value, c.value)
         IN [run EXCEPT !.training = train_mode(eval_mode(@)),
                        !.rng = IF u.value > eps THEN u.rng ELSE c.rng,
                        !.ret = [Ret0 EXCEPT !.op = "act", !.state = state,
                                             !.eps = eps, !.action = action,
                                             !.fwd_training = eval_mode(run.training)]]

\* Agent.step(...) on a run: the batch positions are those random.sample
\* draws from the run's generator
step_seeded(run, e) ==
  LET mem2 == add(run.memory, e, maxlen)
      t2 == (run.t_step + 1) % UPDATE_EVERY
      stored == [run EXCEPT !.memory = mem2, !.t_step = t2]
  IN
  IF ~learn_due(t2, Len(mem2))
    THEN [stored EXCEPT !.ret = [Ret0 EXCEPT !.op = "step", !.args = <<e>>]]
  ELSE IF batch_size > Len(mem2)
    THEN [stored EXCEPT !.ret = [Ret0 EXCEPT !.op = "step", !.args = <<e>>,
                                             !.err = "ValueError"]]
  ELSE LET s == random_sample_seeded(run.rng, Len(mem2), batch_size)
           experiences == collate([i \in 1..batch_size |-> mem2[s.idx[i]]])
           o == optimizer_pick(learn(experiences, GAMMA, run.qnetwork_local,
                                     run.qnetwork_target, run.tscale, double_dqn))
       IN [stored EXCEPT !.rng = s.rng,
                         !.qnetwork_local = o.local,
                         !.qnetwork_target = o.target,
                         !.tscale = o.scale,
                         !.ret = [Ret0 EXCEPT !.op = "step", !.args = <<e>>,
                                              !.err = o.err,
                                              !.learned = TRUE, !.idx = s.idx,
                                              !.batch = experiences,
                                              !.next_max = o.next_max,
                                              !.targets = o.targets]]

(***************************************************************************)
(* Specifications.                                                         *)
(***************************************************************************)
\* Agent(state_size, action_size, seed, double_dqn)
Init ==
  /\ memory = <<>>
  /\ maxlen = BUFFER_SIZE
  /\ batch_size = BATCH_SIZE
  /\ t_step = 0
  /\ double_dqn \in BOOLEAN
  /\ qnetwork_local = ParamVecA
  /\ qnetwork_target \in InitParams
  /\ tscale = 1
  /\ training = TRUE
  /\ ret = Ret0
  /\ nstep = 0
  /\ added = <<>>
  /\ target0 = qnetwork_target
  /\ nsoft = 0
  /\ RngOff

Next ==
  \/ \E e \in StepInputs : Step(e) /\ RngFrame
  \/ \E state \in States \cup {BadState}, eps \in {0, RandDen} :
       Act(state, eps) /\ RngFrame
  \/ \E call \in LearnInputs : Learn(call.experiences, call.gamma) /\ RngFrame

Spec == Init /\ [][Next]_vars

\* ReplayBuffer(action_size, buffer_size, batch_size, seed) on its own, for
\* every capacity and batch size within the bounds.
InitBuf ==
  /\ memory = <<>>
  /\ maxlen \in 1..BUFFER_SIZE
  /\ batch_size \in 1..BATCH_SIZE
  /\ t_step = 0
  /\ double_dqn = FALSE
  /\ qnetwork_local = ParamVecA
  /\ qnetwork_target = ParamVecA
  /\ tscale = 1
  /\ training = TRUE
  /\ ret = Ret0
  /\ nstep = 0
  /\ added = <<>>
  /\ target0 = qnetwork_target
  /\ nsoft = 0
  /\ RngOff

NextBuf ==
  \/ \E e \in AddInputs : Add(e) /\ RngFrame
  \/ Sample /\ RngFrame

SpecBuf == InitBuf /\ [][NextBuf]_vars

\* The agent's buffer in use: step calls and direct sample calls.
NextUse ==
  \/ \E e \in StepInputs : Step(e) /\ RngFrame
  \/ Sample /\ RngFrame

SpecUse == Init /\ [][NextUse]_vars

\* soft_update applied repeatedly to fixed online parameters, for every pair
\* of parameter vectors with entries 0 and 1.
ParamVectors == [1..NParams -> {0, 1}]

InitSoft ==
  /\ memory = <<>>
  /\ maxlen = BUFFER_SIZE
  /\ batch_size = BATCH_SIZE
  /\ t_step = 0
  /\ double_dqn = FALSE
  /\ qnetwork_local \in ParamVectors
  /\ qnetwork_target \in ParamVectors
  /\ tscale = 1
  /\ training = TRUE
  /\ ret = Ret0
  /\ nstep = 0
  /\ added = <<>>
  /\ target0 = qnetwork_target
  /\ nsoft = 0
  /\ RngOff

NextSoft == SoftUpdate /\ RngFrame

SpecSoft == InitSoft /\ [][NextSoft]_vars

\* soft_update called with two estimators whose parameter lists may differ
\* in count: every pair of lists of 1..MaxParams parameters, entries 0 and 1.
ParamLists == UNION {[1..n -> {0, 1}] : n \in 1..MaxParams}

InitZip ==
  /\ memory = <<>>
  /\ maxlen = BUFFER_SIZE
  /\ batch_size = BATCH_SIZE
  /\ t_step = 0
  /\ double_dqn = FALSE
  /\ qnetwork_local \in ParamLists
  /\ qnetwork_target \in ParamLists
  /\ tscale = 1
  /\ training = TRUE
  /\ ret = Ret0
  /\ nstep = 0
  /\ added = <<>>
  /\ target0 = qnetwork_target
  /\ nsoft = 0
  /\ RngOff

NextZip == SoftUpdate /\ RngFrame

SpecZip == InitZip /\ [][NextZip]_vars

\* Two runs of the program, each a process with its own generator, in any
\* state before the agent is built.  Both build one agent with the same
\* seed and make the same calls; the second run may make one more call, an
\* act call or the construction of another Agent or ReplayBuffer.
PriorRng == [seed : Seeds, pos : 0..1]

\* Transitions handed to step in the two runs: those with a valid action.
RngStepInputs == {e \in StepInputs : e.action \in Actions}

\* Arguments of the act calls of the two runs: a greedy call, a call that
\* always explores, and a call with a state of the wrong shape.
ActInputs ==
  {[state |-> 0, eps |-> 0], [state |-> 1, eps |-> RandDen],
   [state |-> BadState, eps |-> 0]}

InitRng ==
  /\ memory = <<>>
  /\ maxlen = BUFFER_SIZE
  /\ batch_size = BATCH_SIZE
  /\ t_step = 0
  /\ double_dqn = TRUE
  /\ qnetwork_local = ParamVecA
  /\ qnetwork_target = ParamVecB
  /\ tscale = 1
  /\ training = TRUE
  /\ ret = Ret0
  /\ nstep = 0
  /\ added = <<>>
  /\ target0 = qnetwork_target
  /\ nsoft = 0
  /\ rng \in PriorRng
  /\ \E g \in PriorRng : twin = [Run EXCEPT !.rng = g]
  /\ inserted = "unbuilt"

\* Agent(state_size, action_size, seed) in both runs
Build(seed) ==
  /\ inserted = "unbuilt"
  /\ rng' = agent_init(rng, seed)
  /\ twin' = [twin EXCEPT !.rng = agent_init(@, seed)]
  /\ inserted' = "none"
  /\ UNCHANGED <<memory, t_step, qnetwork_local, qnetwork_target, tscale,
                 training, ret, nstep, nsoft>>
  /\ AgentFrame

\* agent.act(state, eps) in both runs
BothAct(state, eps) ==
  LET first == act_seeded(Run, state, eps)
      second == act_seeded(twin, state, eps)
  IN
  /\ inserted # "unbuilt"
  /\ first.rng.pos <= MaxDraws
  /\ second.rng.pos <= MaxDraws
  /\ rng' = first.rng
  /\ twin' = second
  /\ inserted' = inserted
  /\ Act(state, eps)
  /\ Run' = first

\* agent.step(...) in both runs
BothStep(e) ==
  LET first == step_seeded(Run, e)
      second == step_seeded(twin, e)
  IN
  /\ inserted # "unbuilt"
  /\ first.rng.pos <= MaxDraws
  /\ second.rng.pos <= MaxDraws
  /\ rng' = first.rng
  /\ twin' = second
  /\ inserted' = inserted
  /\ Step(e)
  /\ Run' = first

\* agent.act(state, eps) with eps > 0, in the second run only
ExtraAct(state, eps) ==
  /\ inserted = "none"
  /\ eps > 0
  /\ state \in States
  /\ act_seeded(twin, state, eps).rng.pos <= MaxDraws
  /\ twin' = act_seeded(twin, state, eps)
  /\ inserted' = "act"
  /\ UNCHANGED <<memory, t_step, qnetwork_local, qnetwork_target, tscale,
                 training, ret, nstep, nsoft, rng>>
  /\ AgentFrame

\* Agent(..., seed) or ReplayBuffer(..., seed) built in the second run only
ExtraBuild(seed) ==
  /\ inserted = "none"
  /\ twin' = [twin EXCEPT !.rng = reseed(@, seed)]
  /\ inserted' = "construct"
  /\ UNCHANGED <<memory, t_step, qnetwork_local, qnetwork_target, tscale,
                 training, ret, nstep, nsoft, rng>>
  /\ AgentFrame

NextRng ==
  \/ \E seed \in Seeds : Build(seed)
  \/ \E call \in ActInputs : BothAct(call.state, call.eps)
  \/ \E e \in RngStepInputs : BothStep(e)
  \/ \E call \in ActInputs : ExtraAct(call.state, call.eps)
  \/ \E seed \in Seeds : ExtraBuild(seed)

SpecRng == InitRng /\ [][NextRng]_vars

(***************************************************************************)
(* Properties.                                                             *)
(***************************************************************************)
Distinct(seq) == \A i, j \in 1..Len(seq) : i # j => seq[i] # seq[j]

\* C1: after n add calls on a buffer of capacity maxlen the buffer holds
\* min(n, maxlen) experiences, never more than maxlen, and they are the
\* min(n, maxlen) most recently added ones in insertion order.
C1_CapacityFifo ==
  LET n == Len(added)
      k == Min(n, maxlen)
  IN /\ Len(memory) = k
     /\ Len(memory) <= maxlen
     /\ memory = SubSeq(added, n - k + 1, n)

\* C1 witness: two experiences have been evicted from a full buffer whose
\* oldest and newest entries differ.
C1_Witness ==
  /\ maxlen >= 2
  /\ Len(added) = maxlen + 2
  /\ Len(memory) = maxlen
  /\ added[1] # added[Len(added)]
  /\ memory[1] # memory[Len(memory)]

\* C2: the n-th step call invokes learn exactly when n is a multiple of
\* UPDATE_EVERY and the buffer, the n-th transition stored, holds more than
\* BATCH_SIZE experiences; t_step is n mod UPDATE_EVERY throughout.
C2_LearnSchedule ==
  /\ t_step = nstep % UPDATE_EVERY
  /\ ret.op = "step" =>
       /\ ret.learned <=> (nstep % UPDATE_EVERY = 0 /\ Len(memory) > BATCH_SIZE)
       /\ Len(memory) <= BATCH_SIZE => ~ret.learned
       /\ ret.learned => Len(ret.idx) = batch_size

\* C2 witness: a step call at a multiple of UPDATE_EVERY that learned, after
\* an earlier multiple of UPDATE_EVERY at which the buffer was too small.
C2_Witness ==
  /\ ret.op = "step"
  /\ ret.learned
  /\ nstep = 2 * UPDATE_EVERY
  /\ UPDATE_EVERY <= BATCH_SIZE

\* C3: a sample call with batch_size <= buffer size returns batch_size
\* experiences drawn from pairwise distinct positions of the buffer, as five
\* parallel arrays of that length whose i-th entries are the fields of the
\* experience at the i-th drawn position.
C3_SampleValid ==
  ret.op = "sample" =>
    /\ ret.err = "none" <=> batch_size <= Len(memory)
    /\ ret.err = "none" =>
         /\ Len(ret.idx) = batch_size
         /\ \A i \in 1..batch_size : ret.idx[i] \in 1..Len(memory)
         /\ Distinct(ret.idx)
         /\ Len(ret.batch.states) = batch_size
         /\ Len(ret.batch.actions) = batch_size
         /\ Len(ret.batch.rewards) = batch_size
         /\ Len(ret.batch.next_states) = batch_size
         /\ Len(ret.batch.dones) = batch_size
         /\ \A i \in 1..batch_size :
              LET e == memory[ret.idx[i]] IN
              /\ ret.batch.states[i] = e.state
              /\ ret.batch.actions[i] = e.action
              /\ ret.batch.rewards[i] = e.reward
              /\ ret.batch.next_states[i] = e.next_state
              /\ ret.batch.dones[i] = 1 <=> e.done

\* C3 witness: a batch of two drawn from a buffer of three that holds the
\* same experience twice.
C3_Witness ==
  /\ ret.op = "sample"
  /\ ret.err = "none"
  /\ batch_size = 2
  /\ Len(memory) = 3
  /\ memory[1] = memory[2]
  /\ ret.idx[1] > ret.idx[2]

\* C4: a sample call on a buffer smaller than the batch size raises and
\* returns no batch, no sample call changes the buffer, and no step call
\* raises that error: whenever step samples, the buffer holds more than
\* BATCH_SIZE experiences and BATCH_SIZE is the buffer's batch size.
C4_SampleGuard ==
  /\ [](/\ (ret.op = "sample" /\ Len(memory) < batch_size) =>
             (ret.err = "ValueError" /\ ret.batch = NoBatch /\ ret.idx = <<>>)
        /\ ret.op = "step" => ret.err # "ValueError"
        /\ (ret.op = "step" /\ ret.learned) =>
             (Len(memory) > BATCH_SIZE /\ batch_size = BATCH_SIZE))
  /\ [][ret'.op = "sample" => memory' = memory]_vars

\* C4 witness: a failed sample call on a buffer that step calls have filled
\* to one experience short of the batch size.
C4_Witness ==
  /\ ret.op = "sample"
  /\ ret.err = "ValueError"
  /\ Len(memory) = batch_size - 1
  /\ nstep = Len(memory)
  /\ nstep > 0

\* A call that ran learn: a step call that triggered it or a direct call.
RanLearn(r) == r.op \in {"step", "learn"} /\ r.learned

\* C5: in learn the target of a sample whose done flag is 1 is its reward,
\* whatever the target network's values and gamma are, and the target of a
\* sample whose done flag is 0 is reward + gamma * bootstrap value; the flag
\* of a sampled experience reaches learn as 1 when done is true and as 0
\* when it is false.
C5_TerminalTarget ==
  [][RanLearn(ret') =>
       /\ ret'.op = "step" =>
            \A i \in 1..Len(ret'.idx) :
              ret'.batch.dones[i] = (IF memory'[ret'.idx[i]].done THEN 1 ELSE 0)
       /\ \A i \in 1..Len(ret'.targets) :
            LET y == ret'.targets[i]
                g == ret'.gamma
                reward == ret'.batch.rewards[i]
            IN /\ y.den = g.den * tscale
               /\ g = (IF ret'.op = "step" THEN GAMMA ELSE g)
               /\ ret'.batch.dones[i] = 1 => y.num = reward * y.den
               /\ ret'.batch.dones[i] = 0 =>
                    y.num = reward * y.den + g.num * ret'.next_max[i]
  ]_vars

\* C5 witness: a step call has learned from a batch with a terminal
\* transition whose bootstrap value was positive and a non-terminal one.
C5_Witness ==
  /\ ret.op = "step"
  /\ ret.learned
  /\ ret.err = "none"
  /\ \E i, j \in 1..Len(ret.targets) :
       /\ ret.batch.dones[i] = 1
       /\ ret.next_max[i] > 0
       /\ ret.targets[i].num = ret.batch.rewards[i] * ret.targets[i].den
       /\ ret.batch.dones[j] = 0
       /\ ret.next_max[j] > 0

\* The lowest action index at which the values v (by action) are maximal.
FirstBest(v) ==
  CHOOSE a \in Actions :
    /\ \A b \in Actions : v[b] <= v[a]
    /\ \A b \in Actions : v[b] = v[a] => a <= b

\* C6: with double_dqn set the bootstrap value of a sample is the target
\* network's value for next_state at the first action maximising the online
\* network's values for next_state; with double_dqn unset it is the largest
\* of the target network's values for next_state.  With double_dqn set it is
\* below that largest value exactly when the online choice is no maximiser
\* of the target values.
C6_DoubleDqn ==
  [][RanLearn(ret') =>
       \A i \in 1..Len(ret'.next_max) :
         LET ns == ret'.batch.next_states[i]
             online == [a \in Actions |-> qnetwork_local[ns * action_size + a + 1]]
             tvals == [a \in Actions |-> qnetwork_target[ns * action_size + a + 1]]
             best == FirstBest(online)
         IN /\ double_dqn => ret'.next_max[i] = tvals[best]
            /\ ~double_dqn =>
                 /\ \A a \in Actions : tvals[a] <= ret'.next_max[i]
                 /\ \E a \in Actions : tvals[a] = ret'.next_max[i]
            /\ double_dqn =>
                 ((\E a \in Actions : tvals[a] > tvals[best])
                    <=> ret'.next_max[i] < tvals[FirstBest(tvals)])
  ]_vars

\* C6 witness: double_dqn is set and a learn call has bootstrapped from a
\* target value 0 although the target network, as it is after the soft
\* update, still has a value of at least 1 - tau for that next_state: the
\* online choice was not the target's best action.
C6_Witness ==
  /\ double_dqn
  /\ RanLearn(ret)
  /\ ret.err = "none"
  /\ \E i \in 1..Len(ret.next_max) :
       /\ ret.next_max[i] = 0
       /\ ret.batch.dones[i] = 0
       /\ MaxOf(forward(qnetwork_target, ret.batch.next_states[i]))
            >= (TAU.den - TAU.num) * (tscale \div TAU.den)

\* C7: with the online parameters fixed, after n soft updates every target
\* parameter equals online - (online - target_0) * (1 - tau)^n; here it is
\* the numerator over the denominator tau.den^n.
C7_SoftUpdateClosedForm ==
  /\ tscale = Pow(TAU.den, nsoft)
  /\ Len(qnetwork_target) = Len(target0)
  /\ \A i \in 1..Len(qnetwork_target) :
       qnetwork_target[i] =
         qnetwork_local[i] * tscale
           - (qnetwork_local[i] - target0[i]) * Pow(TAU.den - TAU.num, nsoft)

\* C7 witness: two soft updates of a target that started away from the
\* online parameters, in a parameter where it started above and in one where
\* it started below.
C7_Witness ==
  /\ nsoft = 2
  /\ \E i, j \in 1..Len(target0) :
       /\ target0[i] > qnetwork_local[i]
       /\ target0[j] < qnetwork_local[j]

\* C8: the target parameters change only in a learn call that reached its
\* soft update, and then every one of them becomes tau * (the online
\* parameter after the optimizer step) + (1 - tau) * (its old value): the
\* optimizer step has not touched them.  act calls, step calls that do not
\* learn and failed calls leave them as they were.
C8_TargetOnlySoftUpdated ==
  [][/\ (qnetwork_target' # qnetwork_target \/ tscale' # tscale) =>
          /\ RanLearn(ret')
          /\ ret'.err = "none"
          /\ tscale' = tscale * TAU.den
          /\ Len(qnetwork_target') = Len(qnetwork_target)
          /\ \A i \in 1..Len(qnetwork_target) :
               qnetwork_target'[i] =
                 TAU.num * qnetwork_local'[i] * tscale
                   + (TAU.den - TAU.num) * qnetwork_target[i]
     /\ (ret'.op = "act" \/ ~ret'.learned \/ ret'.err # "none") =>
          (qnetwork_target' = qnetwork_target /\ tscale' = tscale)
     /\ (RanLearn(ret') /\ ret'.err = "none") => tscale' = tscale * TAU.den
  ]_vars

\* C8 witness: a step call has learned, its optimizer step changed the
\* online parameters, and the target has had one soft update.
C8_Witness ==
  /\ ret.op = "step"
  /\ ret.learned
  /\ ret.err = "none"
  /\ qnetwork_local # ParamVecA
  /\ tscale = TAU.den

\* C9: with eps = 0 act returns the first action maximising the online
\* network's values for the state, whatever random.random() returns.
C9_GreedyAtZeroEps ==
  (ret.op = "act" /\ ret.err = "none" /\ ret.eps = 0) =>
    ret.action = FirstBest([a \in Actions |->
                              qnetwork_local[ret.state * action_size + a + 1]])

\* C10 as claimed: a call that raises has mutated nothing; in particular a
\* step call whose learn raises leaves the buffer, the step counter and
\* both networks' parameters as they were.
C10_FailedCallChangesNothing ==
  [][ret'.err # "none" =>
       /\ memory' = memory
       /\ t_step' = t_step
       /\ qnetwork_local' = qnetwork_local
       /\ qnetwork_target' = qnetwork_target
       /\ tscale' = tscale
  ]_vars

\* C10 as amended: a call that raises leaves both networks' parameters as
\* they were; a failed learn call changes nothing else either; a step call
\* whose learn raises has stored its transition and advanced the counter;
\* a failed act call leaves the buffer and the counter untouched, and when
\* it is the forward pass that raised, the online network in inference mode.
C10_FailedCallEffects ==
  [][ret'.err # "none" =>
       /\ qnetwork_local' = qnetwork_local
       /\ qnetwork_target' = qnetwork_target
       /\ tscale' = tscale
       /\ ret'.op \in {"step", "learn", "act"}
       /\ ret'.op = "learn" =>
            (memory' = memory /\ t_step' = t_step /\ training' = training)
       /\ ret'.op = "step" =>
            /\ Len(memory') = Min(Len(memory) + 1, maxlen)
            /\ \A i \in 1..(Len(memory') - 1) :
                 memory'[i] = memory[i + Len(memory) + 1 - Len(memory')]
            /\ \E i \in 1..Len(ret'.idx) : ret'.idx[i] \in 1..Len(memory')
            /\ t_step' = (t_step + 1) % UPDATE_EVERY
            /\ t_step' = 0
            /\ nstep' = nstep + 1
            /\ training' = training
       /\ ret'.op = "act" =>
            (memory' = memory /\ t_step' = t_step /\ ~training')
  ]_vars

\* C10 witness: a step call has raised in learn with the buffer full, so
\* that its transition replaced the oldest one.
C10_Witness ==
  /\ ret.op = "step"
  /\ ret.err = "IndexError"
  /\ nstep > maxlen
  /\ Len(memory) = maxlen
  /\ memory[Len(memory)].action # BadAction

(***************************************************************************)
(* C11: an act call changes neither the online parameters, nor the target  *)
(* parameters, nor the replay buffer, nor the step counter; its forward    *)
(* pass runs with the online estimator in inference mode, and whenever act *)
(* returns an action the online estimator is in training mode again.       *)
(***************************************************************************)
C11_ActFrame ==
  [][ret'.op = "act" =>
       /\ qnetwork_local' = qnetwork_local
       /\ qnetwork_target' = qnetwork_target
       /\ tscale' = tscale
       /\ memory' = memory
       /\ t_step' = t_step
       /\ ret'.fwd_training = FALSE
       /\ (ret'.err = "none" => training' = TRUE /\ ret'.action \in Actions)]_vars

\* act returned an action after the agent has learned, training mode restored
C11_Witness ==
  /\ ret.op = "act"
  /\ ret.err = "none"
  /\ ret.action \in Actions
  /\ ret.fwd_training = FALSE
  /\ training = TRUE
  /\ nsoft > 0
  /\ Len(memory) > 0

(***************************************************************************)
(* C12: every step call appends its transition to the replay buffer, once, *)
(* whether or not the transition ends the episode and whether or not the   *)
(* call goes on to learn; a step call that does not learn leaves the       *)
(* online and the target parameters as they were.                          *)
(***************************************************************************)
C12_StepStores ==
  [][ret'.op = "step" =>
       /\ Len(ret'.args) = 1
       /\ memory' = IF Len(memory) < maxlen
                      THEN memory \o ret'.args
                      ELSE SubSeq(memory, 2, Len(memory)) \o ret'.args
       /\ nstep' = nstep + 1
       /\ (~ret'.learned =>
             /\ qnetwork_local' = qnetwork_local
             /\ qnetwork_target' = qnetwork_target
             /\ tscale' = tscale
             /\ nsoft' = nsoft)]_vars

\* a step that stored a terminal transition and learned from a full buffer
C12_Witness ==
  /\ ret.op = "step"
  /\ ret.learned
  /\ ret.err = "none"
  /\ ret.args[1].done
  /\ Len(memory) = maxlen
  /\ memory[Len(memory)] = ret.args[1]
  /\ nstep > maxlen

(***************************************************************************)
(* C13: a soft update of estimators whose parameter lists differ in count  *)
(* ends in a StructuralMismatch error; it does not update some of the      *)
(* target parameters and return normally.                                  *)
(***************************************************************************)
C13_MismatchIsFatal ==
  (ret.op = "soft_update" /\ Len(qnetwork_local) # Len(qnetwork_target)) =>
    ret.err = "StructuralMismatch"

(***************************************************************************)
(* C14 as claimed: every learn invocation performs one soft update, so     *)
(* the number of soft updates equals the number of learn invocations.      *)
(***************************************************************************)
C14_EveryLearnSoftUpdates ==
  [][RanLearn(ret') => nsoft' = nsoft + 1]_vars

(***************************************************************************)
(* C14, amended: every learn invocation bootstraps from the target         *)
(* parameters as they were before it.  One that returns has then taken its *)
(* optimizer step on the online parameters and afterwards one soft update, *)
(* which blends the online parameters as the optimizer left them into the  *)
(* old target parameters, never copying them over the target; one that     *)
(* raises has performed no soft update.  The count of soft updates grows   *)
(* by one in a learn invocation that returns and in no other call.         *)
(***************************************************************************)
C14_LearnOrder ==
  [][/\ RanLearn(ret') =>
          /\ \A i \in 1..Len(ret'.next_max) :
               \E a \in Actions :
                 ret'.next_max[i] =
                   qnetwork_target[ret'.batch.next_states[i] * action_size + a + 1]
          /\ ret'.err = "none" =>
               /\ nsoft' = nsoft + 1
               /\ tscale' = tscale * TAU.den
               /\ \A i \in 1..Len(qnetwork_target) :
                    /\ qnetwork_target'[i] =
                         TAU.num * qnetwork_local'[i] * tscale
                           + (TAU.den - TAU.num) * qnetwork_target[i]
                    /\ qnetwork_target'[i] = qnetwork_local'[i] * tscale'
                         => qnetwork_target[i] = qnetwork_local'[i] * tscale
          /\ ret'.err # "none" =>
               /\ nsoft' = nsoft
               /\ qnetwork_target' = qnetwork_target
               /\ tscale' = tscale
     /\ nsoft' # nsoft => (RanLearn(ret') /\ ret'.err = "none")
  ]_vars

\* C14 witness: a step call has learned after an earlier learn, its optimizer
\* step changed the online parameters, and it bootstrapped from a target
\* value that was not 0.
C14_Witness ==
  /\ ret.op = "step"
  /\ ret.learned
  /\ ret.err = "none"
  /\ nsoft = 2
  /\ qnetwork_local # ParamVecA
  /\ \E i \in 1..Len(ret.next_max) : ret.next_max[i] > 0

(***************************************************************************)
(* C15: act and sample draw from one process-wide generator, which the     *)
(* constructors seed.  Two runs that build one agent with the same seed    *)
(* and make the same act and step calls have drawn the same words: their   *)
(* agents, the actions returned and the batches sampled are identical.  An *)
(* act call that gets past its forward pass draws one word, and a second   *)
(* when it explores; a step call that learns draws its batch positions     *)
(* from the words that follow those the act calls drew.  An additional act *)
(* call with eps > 0 leaves the generator further along its stream, and    *)
(* the construction of another Agent or ReplayBuffer puts it back at the   *)
(* start of the stream of the seed given: later samples draw other words.  *)
(***************************************************************************)
C15_SharedGenerator ==
  /\ [](inserted = "none" => twin = Run)
  /\ [][/\ (inserted = "unbuilt" /\ inserted' = "none") =>
            /\ rng'.pos = 0
            /\ rng'.seed \in Seeds
            /\ twin'.rng = rng'
        /\ (inserted # "unbuilt" /\ inserted' = inserted /\ ret'.op = "act") =>
            /\ rng'.seed = rng.seed
            /\ ret'.err # "none" => rng' = rng
            /\ ret'.err = "none" =>
                 /\ rng'.pos \in {rng.pos + 1, rng.pos + 2}
                 /\ ret'.eps = RandDen => rng'.pos = rng.pos + 2
                 /\ Word(rng) % RandDen > ret'.eps => rng'.pos = rng.pos + 1
        /\ (inserted # "unbuilt" /\ inserted' = inserted /\ ret'.op = "step") =>
            /\ rng'.seed = rng.seed
            /\ ~ret'.learned => rng' = rng
            /\ ret'.learned =>
                 /\ rng'.pos = rng.pos + batch_size
                 /\ ret'.idx[1] = (Word(rng) % Len(memory')) + 1
        /\ (inserted = "none" /\ inserted' = "act") =>
            /\ rng' = rng
            /\ twin'.rng.seed = rng.seed
            /\ twin'.rng.pos > rng.pos
        /\ (inserted = "none" /\ inserted' = "construct") =>
            /\ rng' = rng
            /\ twin'.rng.pos = 0
            /\ twin'.rng.seed \in Seeds
       ]_vars

\* C15 witness: the second run made an additional act call, both runs then
\* made the same step call, which learned, and the two batches differ.
C15_Witness ==
  /\ inserted = "act"
  /\ ret.op = "step"
  /\ ret.learned
  /\ ret.err = "none"
  /\ twin.ret.learned
  /\ twin.ret.idx # ret.idx
  /\ twin.rng.seed = rng.seed

====
